---- MODULE Spec2Model ----
(***************************************************************************)
(* Watch-session accounting and points ledger of the creator/viewer video  *)
(* platform (services/points.py, routers/videos.py, database.py).          *)
(*                                                                         *)
(* The three MongoDB collections are the state.  A document that find_one  *)
(* may not find, and a field that dict.get may not find, is a sequence of  *)
(* length 0 (absent) or 1 (present).                                       *)
(***************************************************************************)
EXTENDS Integers, Sequences, FiniteSets, TLC

VARIABLES
    videos,     \* videos_collection: video id -> <<>> or <<document>>
    users,      \* users_collection: user id -> <<>> or <<document>>
    views,      \* views_collection: a set of ViewRecord documents, each with its own id
    now,        \* the clock datetime.utcnow() reads
    calls,      \* the record_watch_session calls in progress: handler -> its locals
    transfers,  \* the transfer requests in progress: handler -> its locals
    started,    \* number of calls the concurrent handlers have started
    ret,        \* what the last completed request did and returned
    scen,       \* observer: progress of the five-report scenario on (v1, u1)
    reported,   \* observer: pair -> largest watch_duration reported until terminal
    returned    \* observer: viewer -> sum of the points_earned the calls returned

vars == <<videos, users, views, now, calls, transfers, started, ret, scen, reported,
          returned>>

(***************************************************************************)
(* Bounds and input sets                                                   *)
(***************************************************************************)
MaxClock == 1
MaxCalls == 3
MaxTransfers == 3

\* the request handlers that may run at once
Handlers == {"h1", "h2"}

VideoIds == {"v1", "v2", "v0"}
UserIds == {"u1", "c1", "u0"}

\* watch_duration values a client reports (seconds)
WatchDurations == {5, 30, 60, 90, 150, 300, 600, 700}
\* duration_seconds values the duration endpoint is called with (gt=0)
UpdateDurations == {120, 600}
\* the reports on the second video, and those of the concurrent handlers
FewDurations == {30, 150}
RaceDurations == {30, 90, 150, 600}
\* reports of a player that polls every ten seconds
FineDurations == {60, 70, 80, 90, 100, 110, 120, 130, 140, 150, 160}
\* the points a transfer request asks for, and the balance a creator's document
\* holds when the transfers start
TransferAmounts == {0, 30, 100}
CreatorBalances == {50}
\* points_per_minute values a video is created with: VideoBase puts no constraint
\* on the int
Rates == {-5, 0, 3, 10}

(***************************************************************************)
(* Program constants                                                       *)
(***************************************************************************)
DEFAULT_POINTS_PER_MINUTE == 10
DEFAULT_DURATION_SECONDS == 600
MINUTE == 60
INITIAL_REPORT_LIMIT == 10
COMPLETION_PERCENT == 95
continued_points_per_minute == 1

(***************************************************************************)
(* Helpers                                                                 *)
(***************************************************************************)
\* dict.get(field, default)
Get(field, default) == IF field = <<>> THEN default ELSE field[1]

Min(a, b) == IF a <= b THEN a ELSE b
Max(a, b) == IF a >= b THEN a ELSE b

\* int(num / den) for den > 0: Python's int() truncates toward zero
Trunc(num, den) == IF num >= 0 THEN num \div den ELSE -((-num) \div den)

\* a document with the fields of patch set to patch's values ($set)
ApplySet(doc, patch) ==
    [f \in DOMAIN doc |-> IF f \in DOMAIN patch THEN patch[f] ELSE doc[f]]

(***************************************************************************)
(* Storage operations                                                      *)
(***************************************************************************)
\* variant: the filter names the viewer only
MatchingViewerOnly(vs, v, u) == {r \in vs : r.viewer_id = u}

\* the documents a filter {"video_id": v, "viewer_id": u} matches
Matching(vs, v, u) == {r \in vs : r.video_id = v /\ r.viewer_id = u}

\* views_collection.find_one({"video_id": v, "viewer_id": u})
FindOneView(vs, v, u) ==
    IF Matching(vs, v, u) = {} THEN <<>>
    ELSE <<CHOOSE r \in Matching(vs, v, u) :
             \A q \in Matching(vs, v, u) : r.id <= q.id>>

\* views_collection.find_one({"_id": id})
FindViewById(vs, id) ==
    IF {r \in vs : r.id = id} = {} THEN <<>>
    ELSE <<CHOOSE r \in vs : r.id = id>>

\* users_collection.update_one({"_id": u}, {"$inc": {"points": n}})
IncPoints(us, u, n) ==
    IF us[u] = <<>> THEN us
    ELSE [us EXCEPT ![u] = <<[us[u][1] EXCEPT !.points = @ + n]>>]

\* views_collection.update_one({"_id": id}, {"$set": patch})
UpdateViewById(vs, id, patch) ==
    {IF r.id = id THEN ApplySet(r, patch) ELSE r : r \in vs}

\* the _id the store gives an inserted document
NewId(vs) == Cardinality(vs) + 1

\* variant: insert_one(doc) with no look at the key
InsertView(vs, v, u, doc) == vs \cup {[id |-> NewId(vs)] @@ doc}

\* views_collection.update_one({"video_id": v, "viewer_id": u}, {"$set": doc}, upsert=True)
UpsertView(vs, v, u, doc) ==
    IF Matching(vs, v, u) = {}
    THEN vs \cup {[id |-> NewId(vs)] @@ doc}
    ELSE UpdateViewById(vs, FindOneView(vs, v, u)[1].id, doc)

(***************************************************************************)
(* record_watch_session: what one call computes from the video document,   *)
(* the record it found (existing: <<>> or <<record>>) and watch_duration   *)
(***************************************************************************)
VideoLength(video) == Get(video.duration_seconds, DEFAULT_DURATION_SECONDS)

RewardRate(video) == Get(video.points_per_minute, DEFAULT_POINTS_PER_MINUTE)

\* variant: the terminal check applied only to a record that has earned points
IsTerminalIfPaid(existing) ==
    existing # <<>> /\ existing[1].fully_watched /\ existing[1].points_earned > 0

IsTerminal(existing) == existing # <<>> /\ existing[1].fully_watched

\* variant: the stored video_duration whatever the report
RecordVideoLengthStored(video, existing, wd) ==
    IF existing # <<>> THEN existing[1].video_duration ELSE VideoLength(video)

RecordVideoLength(video, existing, wd) ==
    IF wd < INITIAL_REPORT_LIMIT /\ Get(video.duration_seconds, 0) > 0
    THEN video.duration_seconds[1]
    ELSE IF existing # <<>> THEN existing[1].video_duration
         ELSE VideoLength(video)

\* variant: 95% of the best-known duration, whatever the video's own length
CompletionThresholdPercentOnly(video, existing, wd) ==
    Trunc(RecordVideoLength(video, existing, wd) * COMPLETION_PERCENT, 100)

CompletionThreshold(video, existing, wd) ==
    Min(VideoLength(video),
        Trunc(RecordVideoLength(video, existing, wd) * COMPLETION_PERCENT, 100))

FullyWatched(video, existing, wd) == wd >= CompletionThreshold(video, existing, wd)

AlreadyEarned(existing) == existing # <<>> /\ existing[1].points_earned > 0

\* the branch for a pair with no record
FirstTimePoints(video, wd) ==
    IF wd < MINUTE
    THEN Trunc(RewardRate(video) * wd, MINUTE)
    ELSE RewardRate(video) + Trunc(continued_points_per_minute * (wd - MINUTE), MINUTE)

\* variant: a viewer who has earned points is paid per additional minute
ExistingPointsPerMinute(video, existing, wd) ==
    IF wd > existing[1].watch_duration /\ ~FullyWatched(video, existing, wd)
    THEN Trunc(continued_points_per_minute * (wd - existing[1].watch_duration), MINUTE)
    ELSE 0

\* variant: every report on a record that is not fully watched is paid
ExistingPointsAnyReport(video, existing, wd) ==
    IF ~FullyWatched(video, existing, wd)
    THEN IF AlreadyEarned(existing)
         THEN IF VideoLength(video) > wd THEN 1 ELSE 0
         ELSE Trunc(continued_points_per_minute * (wd - existing[1].watch_duration), MINUTE)
    ELSE 0

\* variant: a report that does not lower the stored watch_duration is paid
ExistingPointsNotLess(video, existing, wd) ==
    IF wd >= existing[1].watch_duration /\ ~FullyWatched(video, existing, wd)
    THEN IF AlreadyEarned(existing)
         THEN IF VideoLength(video) > wd THEN 1 ELSE 0
         ELSE Trunc(continued_points_per_minute * (wd - existing[1].watch_duration), MINUTE)
    ELSE 0

\* the branch for a pair with a record
ExistingPoints(video, existing, wd) ==
    IF wd > existing[1].watch_duration /\ ~FullyWatched(video, existing, wd)
    THEN IF AlreadyEarned(existing)
         THEN IF VideoLength(video) > wd THEN 1 ELSE 0
         ELSE Trunc(continued_points_per_minute * (wd - existing[1].watch_duration), MINUTE)
    ELSE 0

\* variant: points from half a minute on
MinimumWatchHalf(wd) == wd >= 30

MinimumWatch(wd) == wd >= MINUTE

PointsEarned(video, existing, wd) ==
    IF MinimumWatch(wd)
    THEN IF existing # <<>> THEN ExistingPoints(video, existing, wd)
         ELSE FirstTimePoints(video, wd)
    ELSE 0

\* variant: any user may earn points
IsViewerAny(viewer) == TRUE

\* viewer.get("user_type") = "viewer"
IsViewer(viewer) == viewer[1].user_type = "viewer"

\* variant: any points other than 0 go to the ledger
CreditsLedgerNonZero(points) == points # 0

\* variant: no points go to the ledger
CreditsLedgerNever(points) == FALSE

\* whether the call increments the viewer's points
CreditsLedger(points) == points > 0

\* variant: watch_duration set to the reported value
UpdateFieldsLastReport(video, existing, wd) ==
    IF PointsEarned(video, existing, wd) > 0
    THEN [watch_duration |-> wd,
          fully_watched |-> FullyWatched(video, existing, wd),
          video_duration |-> RecordVideoLength(video, existing, wd),
          points_earned |-> existing[1].points_earned + PointsEarned(video, existing, wd)]
    ELSE [watch_duration |-> wd,
          fully_watched |-> FullyWatched(video, existing, wd),
          video_duration |-> RecordVideoLength(video, existing, wd)]

\* update_fields of the branch for a pair with a record
UpdateFields(video, existing, wd) ==
    IF PointsEarned(video, existing, wd) > 0
    THEN [watch_duration |-> Max(wd, existing[1].watch_duration),
          fully_watched |-> FullyWatched(video, existing, wd),
          video_duration |-> RecordVideoLength(video, existing, wd),
          points_earned |-> existing[1].points_earned + PointsEarned(video, existing, wd)]
    ELSE [watch_duration |-> Max(wd, existing[1].watch_duration),
          fully_watched |-> FullyWatched(video, existing, wd),
          video_duration |-> RecordVideoLength(video, existing, wd)]

\* view_record of the branch for a pair with no record
NewViewRecord(video, v, u, wd, t) ==
    [video_id |-> v,
     viewer_id |-> u,
     watch_duration |-> wd,
     video_duration |-> RecordVideoLength(video, <<>>, wd),
     points_earned |-> PointsEarned(video, <<>>, wd),
     created_at |-> t,
     fully_watched |-> FullyWatched(video, <<>>, wd)]

\* view_record as returned, with the _id of the stored document
WithId(doc, id) == [id |-> id] @@ doc

\* the record the call returns after updating the record it found
UpdatedRecord(vs, video, existing, wd) ==
    IF FindViewById(vs, existing[1].id) # <<>>
    THEN FindViewById(vs, existing[1].id)
    ELSE <<ApplySet(existing[1],
                    [watch_duration |-> Max(wd, existing[1].watch_duration),
                     points_earned |-> IF PointsEarned(video, existing, wd) > 0
                                       THEN existing[1].points_earned
                                            + PointsEarned(video, existing, wd)
                                       ELSE existing[1].points_earned,
                     fully_watched |-> FullyWatched(video, existing, wd)])>>

\* user.get("points", 0)
Balance(us, u) == IF us[u] = <<>> THEN 0 ELSE us[u][1].points

(***************************************************************************)
(* Initial state: two videos as create_video stores them (no               *)
(* duration_seconds yet; a document from before the field existed has no   *)
(* points_per_minute either), a viewer and a creator with no points, no    *)
(* view records.  v0 and u0 are ids of no document.                        *)
(***************************************************************************)
RateFields == {<<>>} \cup {<<r>> : r \in Rates}

NoRet ==
    [op |-> "none", video_id |-> "v0", viewer_id |-> "u0", watch_duration |-> 0,
     status |-> "none", points |-> 0, already |-> FALSE, video |-> <<>>,
     existing |-> <<>>, balance_before |-> 0, record |-> <<>>,
     ledger_incs |-> 0, view_writes |-> 0, repeat |-> FALSE]

IdleCall ==
    [pc |-> "idle", video_id |-> "v0", viewer_id |-> "u0", watch_duration |-> 0,
     video |-> <<>>, viewer |-> <<>>, existing |-> <<>>, created_at |-> 0,
     wrote |-> "none"]

IdleTransfer ==
    [pc |-> "idle", creator_id |-> "u0", points |-> 0, recipient_id |-> "u0",
     current_user |-> <<>>, creator |-> <<>>, recipient |-> <<>>,
     status |-> "none", debits |-> 0, credits |-> 0]

Init ==
    /\ \E rf \in RateFields :
         videos = [v \in VideoIds |->
                     CASE v = "v1" -> <<[duration_seconds |-> <<>>,
                                         points_per_minute |-> rf]>>
                       [] v = "v2" -> <<[duration_seconds |-> <<>>,
                                         points_per_minute |-> <<3>>]>>
                       [] OTHER -> <<>>]
    /\ users = [u \in UserIds |->
                  CASE u = "u1" -> <<[user_type |-> "viewer", points |-> 0]>>
                    [] u = "c1" -> <<[user_type |-> "creator", points |-> 0]>>
                    [] OTHER -> <<>>]
    /\ views = {}
    /\ now = 0
    /\ calls = [h \in Handlers |-> IdleCall]
    /\ transfers = [h \in Handlers |-> IdleTransfer]
    /\ started = 0
    /\ ret = NoRet
    /\ scen = [on |-> TRUE, rets |-> <<>>]
    /\ reported = [v \in VideoIds |-> [u \in UserIds |-> -1]]
    /\ returned = [u \in UserIds |-> 0]

(***************************************************************************)
(* Observers                                                               *)
(***************************************************************************)
\* The scenario of section 8: reports 30, 90, 150, 600, 700 on the fresh pair
\* (v1, u1) while the video has length 600 and rate 10.
Script == <<30, 90, 150, 600, 700>>

ScenStep(v, u, wd, video, existing, points) ==
    IF v = "v1" /\ u = "u1"
    THEN IF /\ scen.on
            /\ Len(scen.rets) < Len(Script)
            /\ wd = Script[Len(scen.rets) + 1]
            /\ (Len(scen.rets) = 0) = (existing = <<>>)
            /\ VideoLength(video) = 600
            /\ RewardRate(video) = 10
         THEN [on |-> TRUE, rets |-> Append(scen.rets, points)]
         ELSE [on |-> FALSE, rets |-> <<>>]
    ELSE scen

\* a report on a pair whose record is not terminal
ReportedStep(v, u, wd) ==
    [reported EXCEPT ![v][u] = IF wd > @ THEN wd ELSE @]

ReturnedStep(u, points) == [returned EXCEPT ![u] = @ + points]

(***************************************************************************)
(* record_watch_session(video_id, viewer_id, watch_duration), one whole    *)
(* call with no other request in between                                   *)
(***************************************************************************)
\* observer: the request before this one was the same call, and it returned
Repeats(v, u, wd) ==
    /\ ret.op = "watch" /\ ret.status = "ok"
    /\ ret.video_id = v /\ ret.viewer_id = u /\ ret.watch_duration = wd

Failure(v, u, wd, kind) ==
    [NoRet EXCEPT !.op = "watch", !.video_id = v, !.viewer_id = u,
                  !.watch_duration = wd, !.status = kind,
                  !.video = videos[v],
                  !.existing = FindOneView(views, v, u),
                  !.balance_before = Balance(users, u),
                  !.repeat = Repeats(v, u, wd)]

RecordWatchSession(v, u, wd) ==
    LET video == videos[v]
        viewer == users[u]
        existing == FindOneView(views, v, u)
    IN
    /\ \A h \in Handlers : calls[h].pc \in {"idle", "done"}
    /\ UNCHANGED <<transfers, videos, now, calls, started>>
    /\ IF video = <<>> \/ viewer = <<>>
       THEN /\ ret' = Failure(v, u, wd, "NotFound")
            /\ UNCHANGED <<users, views, scen, reported, returned>>
       ELSE IF ~IsViewer(viewer)
       THEN /\ ret' = Failure(v, u, wd, "Forbidden")
            /\ UNCHANGED <<users, views, scen, reported, returned>>
       ELSE IF IsTerminal(existing)
       THEN /\ ret' = [Failure(v, u, wd, "ok") EXCEPT
                         !.already = TRUE,
                         !.record = <<[existing[1] EXCEPT !.fully_watched = TRUE]>>]
            /\ scen' = ScenStep(v, u, wd, video[1], existing, 0)
            /\ UNCHANGED <<users, views, reported, returned>>
       ELSE LET points == PointsEarned(video[1], existing, wd) IN
            /\ users' = IF CreditsLedger(points) THEN IncPoints(users, u, points)
                        ELSE users
            /\ views' = IF existing # <<>>
                        THEN UpdateViewById(views, existing[1].id,
                                            UpdateFields(video[1], existing, wd))
                        ELSE UpsertView(views, v, u,
                                        NewViewRecord(video[1], v, u, wd, now))
            /\ ret' = [Failure(v, u, wd, "ok") EXCEPT
                         !.points = points,
                         !.already = AlreadyEarned(existing),
                         !.record =
                            IF existing # <<>>
                            THEN UpdatedRecord(views', video[1], existing, wd)
                            ELSE <<WithId(NewViewRecord(video[1], v, u, wd, now),
                                          FindOneView(views', v, u)[1].id)>>,
                         !.ledger_incs = IF CreditsLedger(points) THEN 1 ELSE 0,
                         !.view_writes = 1]
            /\ scen' = ScenStep(v, u, wd, video[1], existing, points)
            /\ reported' = ReportedStep(v, u, wd)
            /\ returned' = ReturnedStep(u, points)

(***************************************************************************)
(* PUT /{video_id}/duration                                                *)
(***************************************************************************)
UpdateVideoDuration(v, n) ==
    /\ videos[v] # <<>>
    /\ videos' = [videos EXCEPT
                    ![v] = <<[videos[v][1] EXCEPT !.duration_seconds = <<n>>]>>]
    /\ ret' = [NoRet EXCEPT !.op = "duration", !.video_id = v, !.status = "ok"]
    /\ UNCHANGED <<transfers, users, views, now, calls, started, scen, reported, returned>>

\* time passes
Tick ==
    /\ now < MaxClock
    /\ now' = now + 1
    /\ UNCHANGED <<transfers, videos, users, views, calls, started, ret, scen, reported, returned>>

\* one viewer's reports, one request after the other, and the duration endpoint
Next ==
    \/ \E wd \in WatchDurations : RecordWatchSession("v1", "u1", wd)
    \/ \E wd \in FewDurations : RecordWatchSession("v2", "u1", wd)
    \/ \E n \in UpdateDurations : UpdateVideoDuration("v1", n)

Spec == Init /\ [][Next]_vars

\* any user's reports on any video id, those of no document included
ErrNext ==
    \/ \E v \in VideoIds, u \in UserIds, wd \in FewDurations :
          RecordWatchSession(v, u, wd)
    \/ \E n \in UpdateDurations : UpdateVideoDuration("v1", n)

ErrSpec == Init /\ [][ErrNext]_vars

\* one viewer's reports on one video whose configuration stays as created
FineNext == \E wd \in FineDurations : RecordWatchSession("v1", "u1", wd)

FineSpec == Init /\ [][FineNext]_vars

(***************************************************************************)
(* record_watch_session as concurrent request handlers run it: every await *)
(* of a storage call is one atomic step, and other handlers' steps may     *)
(* come between two of them.  A handler keeps what it read in its locals.  *)
(***************************************************************************)
Result(c, kind) ==
    [NoRet EXCEPT !.op = "watch", !.video_id = c.video_id,
                  !.viewer_id = c.viewer_id,
                  !.watch_duration = c.watch_duration, !.status = kind,
                  !.video = c.video, !.existing = c.existing,
                  !.balance_before = IF c.viewer = <<>> THEN 0
                                     ELSE c.viewer[1].points]

\* what the handler computed from its locals
CallPoints(c) == PointsEarned(c.video[1], c.existing, c.watch_duration)

\* video = await videos_collection.find_one(...), the first step of a call
FindVideo(h, v, u, wd) ==
    /\ calls[h].pc \in {"idle", "done"}
    /\ started < MaxCalls
    /\ started' = started + 1
    /\ LET c == [IdleCall EXCEPT !.video_id = v, !.viewer_id = u,
                                 !.watch_duration = wd, !.video = videos[v]]
       IN IF videos[v] = <<>>
          THEN /\ calls' = [calls EXCEPT ![h] = [c EXCEPT !.pc = "done"]]
               /\ ret' = Result(c, "NotFound")
          ELSE /\ calls' = [calls EXCEPT ![h] = [c EXCEPT !.pc = "find_viewer"]]
               /\ UNCHANGED ret
    /\ UNCHANGED <<transfers, videos, users, views, now, scen, reported, returned>>

\* viewer = await users_collection.find_one(...)
FindViewer(h) ==
    /\ calls[h].pc = "find_viewer"
    /\ LET c == [calls[h] EXCEPT !.viewer = users[calls[h].viewer_id]]
       IN IF c.viewer = <<>>
          THEN /\ calls' = [calls EXCEPT ![h] = [c EXCEPT !.pc = "done"]]
               /\ ret' = Result(c, "NotFound")
          ELSE IF ~IsViewer(c.viewer)
          THEN /\ calls' = [calls EXCEPT ![h] = [c EXCEPT !.pc = "done"]]
               /\ ret' = Result(c, "Forbidden")
          ELSE /\ calls' = [calls EXCEPT ![h] = [c EXCEPT !.pc = "find_view"]]
               /\ UNCHANGED ret
    /\ UNCHANGED <<transfers, videos, users, views, now, started, scen, reported, returned>>

\* existing_view = await views_collection.find_one(...), the terminal check
\* and the computation of the points; with no points to credit and no record
\* found, view_record is built next, datetime.utcnow() included
FindView(h) ==
    /\ calls[h].pc = "find_view"
    /\ LET c == [calls[h] EXCEPT
                   !.existing = FindOneView(views, calls[h].video_id,
                                            calls[h].viewer_id)]
       IN IF IsTerminal(c.existing)
          THEN /\ calls' = [calls EXCEPT ![h] = [c EXCEPT !.pc = "done"]]
               /\ ret' = [Result(c, "ok") EXCEPT
                            !.already = TRUE,
                            !.record = <<[c.existing[1] EXCEPT
                                            !.fully_watched = TRUE]>>]
          ELSE /\ calls' = [calls EXCEPT
                              ![h] = [c EXCEPT
                                        !.pc = IF CreditsLedger(CallPoints(c))
                                               THEN "inc_points"
                                               ELSE "write_view",
                                        !.created_at =
                                            IF c.existing = <<>>
                                               /\ ~CreditsLedger(CallPoints(c))
                                            THEN now ELSE 0]]
               /\ UNCHANGED ret
    /\ UNCHANGED <<transfers, videos, users, views, now, started, scen, reported, returned>>

\* await users_collection.update_one(..., {"$inc": {"points": points_earned}})
\* (the find_one after it only logs); with no record found, view_record is
\* built next, datetime.utcnow() included
IncUserPoints(h) ==
    /\ calls[h].pc = "inc_points"
    /\ users' = IncPoints(users, calls[h].viewer_id, CallPoints(calls[h]))
    /\ calls' = [calls EXCEPT ![h].pc = "write_view",
                              ![h].created_at = IF calls[h].existing = <<>>
                                                THEN now ELSE 0]
    /\ UNCHANGED <<transfers, videos, views, now, started, ret, scen, reported, returned>>

\* await views_collection.update_one({"_id": existing_view["_id"]}, {"$set": ...})
UpdateView(h) ==
    /\ calls[h].pc = "write_view"
    /\ calls[h].existing # <<>>
    /\ views' = UpdateViewById(views, calls[h].existing[1].id,
                               UpdateFields(calls[h].video[1], calls[h].existing,
                                            calls[h].watch_duration))
    /\ calls' = [calls EXCEPT ![h].pc = "read_back", ![h].wrote = "update"]
    /\ UNCHANGED <<transfers, videos, users, now, started, ret, scen, reported, returned>>

\* updated_view = await views_collection.find_one({"_id": ...}) and the return
ReadBack(h) ==
    /\ calls[h].pc = "read_back"
    /\ calls' = [calls EXCEPT ![h].pc = "done"]
    /\ ret' = [Result(calls[h], "ok") EXCEPT
                 !.points = CallPoints(calls[h]),
                 !.already = AlreadyEarned(calls[h].existing),
                 !.record = UpdatedRecord(views, calls[h].video[1],
                                          calls[h].existing,
                                          calls[h].watch_duration),
                 !.ledger_incs = IF CreditsLedger(CallPoints(calls[h]))
                                 THEN 1 ELSE 0,
                 !.view_writes = 1]
    /\ UNCHANGED <<transfers, videos, users, views, now, started, scen, reported, returned>>

\* await views_collection.update_one({video_id, viewer_id}, {"$set": view_record},
\* upsert=True) and the return of view_record (the find_one that follows an
\* update only fetches the _id)
UpsertNewView(h) ==
    /\ calls[h].pc = "write_view"
    /\ calls[h].existing = <<>>
    /\ LET c == calls[h]
           doc == NewViewRecord(c.video[1], c.video_id, c.viewer_id,
                                c.watch_duration, c.created_at)
       IN /\ views' = UpsertView(views, c.video_id, c.viewer_id, doc)
          /\ calls' = [calls EXCEPT ![h].pc = "done", ![h].wrote = "upsert"]
          /\ ret' = [Result(c, "ok") EXCEPT
                       !.points = CallPoints(c),
                       !.record = <<WithId(doc,
                                      FindOneView(views', c.video_id,
                                                  c.viewer_id)[1].id)>>,
                       !.ledger_incs = IF CreditsLedger(CallPoints(c))
                                       THEN 1 ELSE 0,
                       !.view_writes = 1]
    /\ UNCHANGED <<transfers, videos, users, now, started, scen, reported, returned>>

\* the same upsert losing the race for the unique index: the store raises a
\* duplicate-key error, and the except branch returns the record it finds
UpsertDuplicateKey(h) ==
    /\ calls[h].pc = "write_view"
    /\ calls[h].existing = <<>>
    /\ Matching(views, calls[h].video_id, calls[h].viewer_id) # {}
    /\ calls' = [calls EXCEPT ![h].pc = "done", ![h].wrote = "duplicate_key"]
    /\ ret' = [Result(calls[h], "ok") EXCEPT
                 !.points = CallPoints(calls[h]),
                 !.record = FindOneView(views, calls[h].video_id,
                                        calls[h].viewer_id),
                 !.ledger_incs = IF CreditsLedger(CallPoints(calls[h]))
                                 THEN 1 ELSE 0]
    /\ UNCHANGED <<transfers, videos, users, views, now, started, scen, reported, returned>>

\* the record write raises (the store is unreachable), or the request is
\* cancelled while it waits for it: the call ends there, after its $inc
WriteViewFails(h) ==
    /\ calls[h].pc = "write_view"
    /\ calls' = [calls EXCEPT ![h].pc = "done", ![h].wrote = "aborted"]
    /\ UNCHANGED <<transfers, videos, users, views, now, started, ret, scen, reported,
                   returned>>

\* one handler serving one viewer's reports, a call at a time, where the
\* record write may fail
AbortNext ==
    \/ \E wd \in RaceDurations : FindVideo("h1", "v1", "u1", wd)
    \/ FindViewer("h1")
    \/ FindView("h1")
    \/ IncUserPoints("h1")
    \/ UpdateView("h1")
    \/ ReadBack("h1")
    \/ UpsertNewView("h1")
    \/ WriteViewFails("h1")

AbortSpec == Init /\ [][AbortNext]_vars

\* two handlers serving one viewer's reports on one video
ConcNext ==
    \/ \E h \in Handlers, wd \in RaceDurations : FindVideo(h, "v1", "u1", wd)
    \/ \E h \in Handlers : FindViewer(h)
    \/ \E h \in Handlers : FindView(h)
    \/ \E h \in Handlers : IncUserPoints(h)
    \/ \E h \in Handlers : UpdateView(h)
    \/ \E h \in Handlers : ReadBack(h)
    \/ \E h \in Handlers : UpsertNewView(h)
    \/ \E h \in Handlers : UpsertDuplicateKey(h)
    \/ Tick

\* the video of the race pays the default rate
ConcInit == Init /\ videos["v1"][1].points_per_minute = <<DEFAULT_POINTS_PER_MINUTE>>

ConcSpec == ConcInit /\ [][ConcNext]_vars

(***************************************************************************)
(* POST /transfer-points: transfer_user_points and transfer_points, run by *)
(* concurrent request handlers; every await of a storage call is one       *)
(* atomic step.  The status names are those of the error taxonomy:         *)
(* Unauthorized 401, Forbidden 403, InvalidArgument 400 "Points must be    *)
(* greater than zero", InsufficientBalance 400 "Insufficient points",      *)
(* NotFound 404.                                                           *)
(***************************************************************************)
\* variant: no balance is too small
InsufficientNever(creator, points) == FALSE

\* creator.get("points", 0) < points
Insufficient(creator, points) == creator[1].points < points

TransferEnds(h, c, kind) ==
    transfers' = [transfers EXCEPT ![h] = [c EXCEPT !.pc = "done", !.status = kind]]

\* get_current_user finds the caller's document; transfer_user_points checks
\* the caller's user_type and the points, and calls transfer_points
TransferUserPoints(h, cu, rcp, pts) ==
    /\ transfers[h].pc \in {"idle", "done"}
    /\ started < MaxTransfers
    /\ started' = started + 1
    /\ LET c == [IdleTransfer EXCEPT !.creator_id = cu, !.points = pts,
                                     !.recipient_id = rcp,
                                     !.current_user = users[cu]]
       IN IF c.current_user = <<>> THEN TransferEnds(h, c, "Unauthorized")
          ELSE IF c.current_user[1].user_type # "creator"
          THEN TransferEnds(h, c, "Forbidden")
          ELSE IF pts <= 0 THEN TransferEnds(h, c, "InvalidArgument")
          ELSE transfers' = [transfers EXCEPT ![h] = [c EXCEPT !.pc = "find_creator"]]
    /\ UNCHANGED <<videos, users, views, now, calls, ret, scen, reported, returned>>

\* creator = await users_collection.find_one(...) and the balance check
TransferFindCreator(h) ==
    /\ transfers[h].pc = "find_creator"
    /\ LET c == [transfers[h] EXCEPT !.creator = users[transfers[h].creator_id]]
       IN IF c.creator = <<>> THEN TransferEnds(h, c, "NotFound")
          ELSE IF Insufficient(c.creator, c.points)
          THEN TransferEnds(h, c, "InsufficientBalance")
          ELSE transfers' = [transfers EXCEPT ![h] = [c EXCEPT !.pc = "find_recipient"]]
    /\ UNCHANGED <<videos, users, views, now, calls, started, ret, scen, reported,
                   returned>>

\* recipient = await users_collection.find_one(...)
TransferFindRecipient(h) ==
    /\ transfers[h].pc = "find_recipient"
    /\ LET c == [transfers[h] EXCEPT !.recipient = users[transfers[h].recipient_id]]
       IN IF c.recipient = <<>> THEN TransferEnds(h, c, "NotFound")
          ELSE transfers' = [transfers EXCEPT ![h] = [c EXCEPT !.pc = "debit"]]
    /\ UNCHANGED <<videos, users, views, now, calls, started, ret, scen, reported,
                   returned>>

\* await users_collection.update_one({"_id": creator_id}, {"$inc": {"points": -points}})
TransferDebit(h) ==
    /\ transfers[h].pc = "debit"
    /\ users' = IncPoints(users, transfers[h].creator_id, -transfers[h].points)
    /\ transfers' = [transfers EXCEPT ![h].pc = "credit", ![h].debits = @ + 1]
    /\ UNCHANGED <<videos, views, now, calls, started, ret, scen, reported, returned>>

\* await users_collection.update_one({"_id": recipient_id}, {"$inc": {"points": points}})
\* and return True
TransferCredit(h) ==
    /\ transfers[h].pc = "credit"
    /\ users' = IncPoints(users, transfers[h].recipient_id, transfers[h].points)
    /\ transfers' = [transfers EXCEPT ![h].pc = "done", ![h].status = "ok",
                                      ![h].credits = @ + 1]
    /\ UNCHANGED <<videos, views, now, calls, started, ret, scen, reported, returned>>

\* the second update_one raises (the store is unreachable) or the request is
\* cancelled while it waits: nothing catches it, and the debit stays
TransferCreditFails(h) ==
    /\ transfers[h].pc = "credit"
    /\ TransferEnds(h, transfers[h], "Error")
    /\ UNCHANGED <<videos, users, views, now, calls, started, ret, scen, reported,
                   returned>>

TransferNext ==
    \/ \E h \in Handlers, cu \in UserIds, rcp \in {"u1", "u0"}, pts \in TransferAmounts :
          TransferUserPoints(h, cu, rcp, pts)
    \/ \E h \in Handlers : TransferFindCreator(h)
    \/ \E h \in Handlers : TransferFindRecipient(h)
    \/ \E h \in Handlers : TransferDebit(h)
    \/ \E h \in Handlers : TransferCredit(h)
    \/ \E h \in Handlers : TransferCreditFails(h)

\* the store as the transfers find it: the creator's document holds points
TransferInit ==
    /\ videos = [v \in VideoIds |-> <<>>]
    /\ \E b \in CreatorBalances :
         users = [u \in UserIds |->
                    CASE u = "u1" -> <<[user_type |-> "viewer", points |-> 0]>>
                      [] u = "c1" -> <<[user_type |-> "creator", points |-> b]>>
                      [] OTHER -> <<>>]
    /\ views = {}
    /\ now = 0
    /\ calls = [h \in Handlers |-> IdleCall]
    /\ transfers = [h \in Handlers |-> IdleTransfer]
    /\ started = 0
    /\ ret = NoRet
    /\ scen = [on |-> TRUE, rets |-> <<>>]
    /\ reported = [v \in VideoIds |-> [u \in UserIds |-> -1]]
    /\ returned = [u \in UserIds |-> 0]

TransferSpec == TransferInit /\ [][TransferNext]_vars

(***************************************************************************)
(* What the claims speak of                                                *)
(***************************************************************************)
\* the last request was a record_watch_session call that returned a result
Watched == ret.op = "watch" /\ ret.status = "ok"

\* the stored record of the pair the last request was about
RetStored == FindOneView(views, ret.video_id, ret.viewer_id)

RECURSIVE SumPointsEarned(_)
SumPointsEarned(S) ==
    IF S = {} THEN 0
    ELSE LET r == CHOOSE x \in S : TRUE
         IN r.points_earned + SumPointsEarned(S \ {r})

ViewsOf(u) == {r \in views : r.viewer_id = u}

IsPrefix(s, t) == Len(s) <= Len(t) /\ \A i \in 1..Len(s) : s[i] = t[i]

(***************************************************************************)
(* C1 -- P1, terminal state: a call that finds the pair's record with      *)
(* fully_watched = true returns 0 points, writes nothing, and leaves the   *)
(* stored record and the viewer's balance as they were.                    *)
(***************************************************************************)
C1_TerminalState ==
    (Watched /\ ret.existing # <<>> /\ ret.existing[1].fully_watched)
        => /\ ret.points = 0
           /\ ret.view_writes = 0
           /\ ret.ledger_incs = 0
           /\ RetStored = ret.existing
           /\ Balance(users, ret.viewer_id) = ret.balance_before

C1_Witness ==
    /\ Watched
    /\ ret.existing # <<>>
    /\ ret.existing[1].fully_watched
    /\ ret.existing[1].points_earned = 0
    /\ ret.watch_duration > ret.existing[1].watch_duration
    /\ ret.view_writes = 0

(***************************************************************************)
(* C2 -- P5, ledger consistency: over a sequential history of calls for    *)
(* one viewer, the sum of the returned points_earned_this_call equals the  *)
(* change of the viewer's balance (which starts at 0).                     *)
(***************************************************************************)
C2_LedgerConsistency ==
    \A u \in UserIds : Balance(users, u) = returned[u]

(***************************************************************************)
(* C3 -- no accounting leak: after every call of a sequential history the  *)
(* viewer's balance equals the sum of points_earned over the viewer's      *)
(* stored ViewRecords.                                                     *)
(***************************************************************************)
C3_NoAccountingLeak ==
    \A u \in UserIds : Balance(users, u) = SumPointsEarned(ViewsOf(u))

(***************************************************************************)
(* C4 -- P2, monotone duration: a call never lowers the stored             *)
(* watch_duration, and the stored value is the largest watch_duration      *)
(* reported on the pair up to the report that made the record terminal.    *)
(***************************************************************************)
C4_MonotoneDuration ==
    /\ (Watched /\ ret.existing # <<>>)
          => RetStored[1].watch_duration >= ret.existing[1].watch_duration
    /\ \A r \in views : r.watch_duration = reported[r.video_id][r.viewer_id]

C4_Witness ==
    /\ Watched
    /\ ret.existing # <<>>
    /\ ret.view_writes = 1
    /\ ret.watch_duration < ret.existing[1].watch_duration
    /\ RetStored[1].watch_duration = ret.existing[1].watch_duration

(***************************************************************************)
(* C5 -- P3, uniqueness: in every state reached by concurrently            *)
(* interleaved calls, also two first reports that both found no record     *)
(* before either wrote, the views collection holds at most one record per  *)
(* (video_id, viewer_id).                                                  *)
(***************************************************************************)
C5_UniquePair ==
    \A v \in VideoIds, u \in UserIds : Cardinality(Matching(views, v, u)) <= 1

C5_Witness ==
    \E h \in Handlers, g \in Handlers :
        /\ h # g
        /\ calls[h].pc = "done" /\ calls[g].pc = "done"
        /\ calls[h].video_id = calls[g].video_id
        /\ calls[h].viewer_id = calls[g].viewer_id
        /\ calls[h].existing = <<>> /\ calls[g].existing = <<>>
        /\ calls[h].wrote = "upsert" /\ calls[g].wrote = "upsert"
        /\ Cardinality(Matching(views, calls[h].video_id, calls[h].viewer_id)) = 1

(***************************************************************************)
(* C6 -- P4, floor: a call with watch_duration < 60 returns no positive    *)
(* points_earned_this_call and does not increment the viewer's balance.    *)
(***************************************************************************)
C6_Floor ==
    (Watched /\ ret.watch_duration < 60)
        => /\ ~(ret.points > 0)
           /\ ret.ledger_incs = 0
           /\ Balance(users, ret.viewer_id) = ret.balance_before

C6_Witness ==
    /\ Watched
    /\ ret.watch_duration = 30
    /\ ret.existing = <<>>
    /\ ret.video[1].points_per_minute = <<10>>
    /\ ret.view_writes = 1
    /\ ret.points = 0

(***************************************************************************)
(* C7 -- unpaid existing record: a record exists with points_earned = 0    *)
(* and fully_watched = false; a report of watch_duration >= 60, above the  *)
(* stored watch_duration and below the completion threshold, is paid by    *)
(* the first-time formula on the whole watch_duration:                     *)
(* reward_rate + floor(watch_duration / 60 - 1).                           *)
(***************************************************************************)
C7_UnpaidExistingRecord ==
    (/\ Watched
     /\ ret.existing # <<>>
     /\ ret.existing[1].points_earned = 0
     /\ ~ret.existing[1].fully_watched
     /\ ret.watch_duration >= 60
     /\ ret.watch_duration > ret.existing[1].watch_duration
     /\ ~ret.record[1].fully_watched)
        => LET rate == Get(ret.video[1].points_per_minute, 10)
               pts == rate + ((ret.watch_duration \div 60) - 1)
           IN /\ ret.points = pts
              /\ RetStored[1].points_earned = pts

(***************************************************************************)
(* C8 -- first-ever report: no record exists and watch_duration >= 60;     *)
(* the call returns reward_rate + floor((watch_duration - 60) / 60), with  *)
(* reward_rate the video's points_per_minute (10 if absent); the created   *)
(* record stores that value and the balance is incremented by it.          *)
(***************************************************************************)
C8_FirstEverReport ==
    (Watched /\ ret.existing = <<>> /\ ret.watch_duration >= 60)
        => LET rate == Get(ret.video[1].points_per_minute, 10)
               pts == rate + ((ret.watch_duration - 60) \div 60)
           IN /\ ret.points = pts
              /\ RetStored # <<>>
              /\ RetStored[1].points_earned = pts
              /\ Balance(users, ret.viewer_id) = ret.balance_before + pts

C10_ScenarioTrace ==
    scen.on
        => /\ IsPrefix(scen.rets, <<0, 10, 1, 0, 0>>)
           /\ Len(scen.rets) >= 3 => FindOneView(views, "v1", "u1")[1].points_earned = 11
           /\ Len(scen.rets) >= 4 => FindOneView(views, "v1", "u1")[1].fully_watched
           /\ (Len(scen.rets) = 5 /\ Watched /\ ret.video_id = "v1") => ret.view_writes = 0

(***************************************************************************)
(* C11 -- no points on completion: a call whose report makes the video     *)
(* fully watched (fully_watched computed true by this call) returns 0      *)
(* points and does not increment the ledger, whether or not a record       *)
(* existed, also when the first-ever report already reaches the threshold. *)
(***************************************************************************)
C11_NoPointsOnCompletion ==
    (Watched /\ ret.view_writes = 1 /\ ret.record[1].fully_watched)
        => /\ ret.points = 0
           /\ ret.ledger_incs = 0
           /\ Balance(users, ret.viewer_id) = ret.balance_before

(***************************************************************************)
(* C12 -- completion rule: a call that passes the terminal check writes    *)
(* fully_watched = (watch_duration >= min(video_length, floor(0.95 *       *)
(* record_video_length))), video_length being duration_seconds (600 if     *)
(* absent) and record_video_length the stored video_duration (video_length *)
(* with no record), replaced by duration_seconds when watch_duration < 10  *)
(* and duration_seconds > 0; so watch_duration >= video_length makes the   *)
(* record fully_watched whatever the stored video_duration.                *)
(***************************************************************************)
C12_CompletionRule ==
    (Watched /\ ret.view_writes = 1)
        => LET ds == ret.video[1].duration_seconds
               video_length == IF ds = <<>> THEN 600 ELSE ds[1]
               stored == IF ret.existing = <<>> THEN video_length
                         ELSE ret.existing[1].video_duration
               record_video_length ==
                   IF ret.watch_duration < 10 /\ ds # <<>> /\ ds[1] > 0
                   THEN ds[1] ELSE stored
               threshold == IF video_length <= (record_video_length * 95) \div 100
                            THEN video_length
                            ELSE (record_video_length * 95) \div 100
           IN /\ RetStored[1].fully_watched = (ret.watch_duration >= threshold)
              /\ ret.watch_duration >= video_length => RetStored[1].fully_watched

C12_Witness ==
    /\ Watched
    /\ ret.view_writes = 1
    /\ ret.existing # <<>>
    /\ ret.existing[1].video_duration = 600
    /\ ret.video[1].duration_seconds = <<120>>
    /\ ret.watch_duration = 150
    /\ RetStored[1].fully_watched

(***************************************************************************)
(* C13 -- already_earned_before: the returned flag is true exactly when,   *)
(* before the call, a record of the pair existed with points_earned > 0;   *)
(* it is false when the record is fully_watched with points_earned = 0.    *)
(***************************************************************************)
C13_AlreadyEarnedFlag ==
    Watched
        => (ret.already <=> (ret.existing # <<>> /\ ret.existing[1].points_earned > 0))

(***************************************************************************)
(* C18 -- idempotent repeat: a call followed at once, with the video       *)
(* unchanged, by the same call (same video, viewer and watch_duration):    *)
(* the second call returns 0 points and leaves the record's                *)
(* watch_duration, video_duration, points_earned and fully_watched and the *)
(* viewer's balance as the first call left them.                           *)
(***************************************************************************)
C18_IdempotentRepeat ==
    (Watched /\ ret.repeat)
        => /\ ret.points = 0
           /\ ret.existing # <<>> /\ RetStored # <<>>
           /\ RetStored[1].watch_duration = ret.existing[1].watch_duration
           /\ RetStored[1].video_duration = ret.existing[1].video_duration
           /\ RetStored[1].points_earned = ret.existing[1].points_earned
           /\ RetStored[1].fully_watched = ret.existing[1].fully_watched
           /\ Balance(users, ret.viewer_id) = ret.balance_before

C18_Witness ==
    /\ Watched
    /\ ret.repeat
    /\ ret.view_writes = 1
    /\ ret.watch_duration >= 60
    /\ ret.existing[1].points_earned > 0
    /\ ret.existing[1].watch_duration = ret.watch_duration

(***************************************************************************)
(* C17 -- watch-session errors: the call fails with NotFound when the      *)
(* video or the viewer does not exist and with Forbidden when the user's   *)
(* user_type is not "viewer"; a failing call creates or modifies no        *)
(* ViewRecord and changes no balance.                                      *)
(***************************************************************************)
C17_WatchErrors ==
    [][(ret' # ret /\ ret'.op = "watch")
          => LET video == videos[ret'.video_id]
                 viewer == users[ret'.viewer_id]
             IN /\ (video = <<>> \/ viewer = <<>>)
                      => (ret'.status = "NotFound" /\ views' = views /\ users' = users)
                /\ (video # <<>> /\ viewer # <<>> /\ viewer[1].user_type # "viewer")
                      => (ret'.status = "Forbidden" /\ views' = views /\ users' = users)
                /\ ret'.status \in {"NotFound", "Forbidden"}
                      => (views' = views /\ users' = users)]_vars

C17_Witness ==
    /\ ret.op = "watch"
    /\ ret.status = "Forbidden"
    /\ ret.video_id = "v1" /\ ret.viewer_id = "c1"
    /\ ret.watch_duration = 150
    /\ views # {}

(***************************************************************************)
(* C14 -- P6, transfer atomicity: a transfer that is over, also one that   *)
(* failed or was aborted between its storage steps, has debited the source *)
(* and credited the recipient, or changed neither balance; never is the    *)
(* source debited and the recipient not credited.                          *)
(***************************************************************************)
C14_TransferAtomicity ==
    \A h \in Handlers :
        transfers[h].pc = "done" => transfers[h].debits = transfers[h].credits

(***************************************************************************)
(* C15 -- non-negative balance: after any interleaving of transfers with   *)
(* positive amounts, from balances that start non-negative, no user's      *)
(* balance is negative.                                                    *)
(***************************************************************************)
C15_NonNegativeBalance ==
    \A u \in UserIds : Balance(users, u) >= 0

C19_MonotoneUnderConcurrency ==
    [][\A r \in views : \A q \in views' :
          q.id = r.id => /\ q.watch_duration >= r.watch_duration
                         /\ q.points_earned >= r.points_earned]_vars

(***************************************************************************)
(* C20 -- sticky completion under concurrency: under any interleaving of   *)
(* concurrent calls on one pair, a stored record with fully_watched = true *)
(* never has fully_watched = false later, and from then on neither its     *)
(* points_earned nor the viewer's balance grows.                           *)
(***************************************************************************)
C20_StickyUnderConcurrency ==
    [][\A r \in views : \A q \in views' :
          (q.id = r.id /\ r.fully_watched)
              => /\ q.fully_watched
                 /\ q.points_earned <= r.points_earned
                 /\ Balance(users', r.viewer_id) <= Balance(users, r.viewer_id)]_vars

(***************************************************************************)
(* C23 -- duration-discovery ping: a call with watch_duration < 10 on a    *)
(* pair whose record is not terminal, the video having duration_seconds >  *)
(* 0, stores video_duration = the video's duration_seconds, awards 0       *)
(* points and leaves points_earned and the balance unchanged; a call with  *)
(* watch_duration >= 10 on an existing record leaves the stored            *)
(* video_duration unchanged.                                               *)
(***************************************************************************)
C23_DurationPing ==
    /\ (/\ Watched
        /\ ret.watch_duration < 10
        /\ ~(ret.existing # <<>> /\ ret.existing[1].fully_watched)
        /\ ret.video[1].duration_seconds # <<>>
        /\ ret.video[1].duration_seconds[1] > 0)
          => /\ RetStored # <<>>
             /\ RetStored[1].video_duration = ret.video[1].duration_seconds[1]
             /\ ret.points = 0
             /\ RetStored[1].points_earned
                  = (IF ret.existing = <<>> THEN 0 ELSE ret.existing[1].points_earned)
             /\ Balance(users, ret.viewer_id) = ret.balance_before
    /\ (Watched /\ ret.watch_duration >= 10 /\ ret.existing # <<>>)
          => RetStored[1].video_duration = ret.existing[1].video_duration

C23_Witness ==
    /\ Watched
    /\ ret.watch_duration = 5
    /\ ret.existing # <<>>
    /\ ret.existing[1].video_duration = 600
    /\ ret.existing[1].points_earned > 0
    /\ ret.video[1].duration_seconds = <<120>>
    /\ RetStored[1].video_duration = 120

(***************************************************************************)
(* C24 -- stale or out-of-order report: a call on an existing non-terminal *)
(* record with watch_duration at most the stored watch_duration returns 0  *)
(* points and leaves the stored watch_duration, the stored points_earned   *)
(* and the viewer's balance unchanged.                                     *)
(***************************************************************************)
C24_StaleReport ==
    (/\ Watched
     /\ ret.existing # <<>>
     /\ ~ret.existing[1].fully_watched
     /\ ret.watch_duration <= ret.existing[1].watch_duration)
        => /\ ret.points = 0
           /\ RetStored[1].watch_duration = ret.existing[1].watch_duration
           /\ RetStored[1].points_earned = ret.existing[1].points_earned
           /\ Balance(users, ret.viewer_id) = ret.balance_before

C24_Witness ==
    /\ Watched
    /\ ret.existing # <<>>
    /\ ~ret.existing[1].fully_watched
    /\ ret.existing[1].points_earned > 0
    /\ ret.watch_duration >= 60
    /\ ret.watch_duration < ret.existing[1].watch_duration
    /\ ret.view_writes = 1

(***************************************************************************)
(* C25 -- side-effect count: a call makes at most one ledger increment,    *)
(* and makes one exactly when points_earned_this_call > 0; a call that     *)
(* passes validation and the terminal check writes the pair's ViewRecord   *)
(* exactly once; no side effect is applied twice.                          *)
(***************************************************************************)
C25_SideEffectCount ==
    Watched
        => LET credited == IF ret.points > 0 THEN ret.points ELSE 0
               terminal == ret.existing # <<>> /\ ret.existing[1].fully_watched
           IN /\ ret.ledger_incs \in {0, 1}
              /\ (ret.ledger_incs = 1) <=> (ret.points > 0)
              /\ Balance(users, ret.viewer_id) = ret.balance_before + credited
              /\ ~terminal => ret.view_writes = 1
              /\ (~terminal /\ ret.existing # <<>>)
                    => RetStored[1].points_earned
                         = ret.existing[1].points_earned + credited
              /\ (~terminal /\ ret.existing = <<>>)
                    => /\ Cardinality(Matching(views, ret.video_id, ret.viewer_id)) = 1
                       /\ RetStored[1].points_earned = ret.points

C25_Witness ==
    /\ Watched
    /\ ret.existing # <<>>
    /\ ret.points > 0
    /\ ret.ledger_incs = 1
    /\ ret.view_writes = 1
    /\ Balance(users, ret.viewer_id) = ret.balance_before + ret.points

(***************************************************************************)
(* C27 -- completion flag agrees with stored progress: in every state      *)
(* reached by sequential calls and updates of the video's                  *)
(* duration_seconds, a record whose stored watch_duration >= min(video     *)
(* duration_seconds, floor(0.95 * stored video_duration)) has              *)
(* fully_watched = true.                                                   *)
(***************************************************************************)
C27_FlagAgreesWithProgress ==
    \A r \in views :
        LET ds == videos[r.video_id][1].duration_seconds
            video_length == IF ds = <<>> THEN 600 ELSE ds[1]
            percent == (r.video_duration * 95) \div 100
            threshold == IF video_length <= percent THEN video_length ELSE percent
        IN r.watch_duration >= threshold => r.fully_watched

(***************************************************************************)
(* C28 -- the nominal-length guard is redundant: whenever the              *)
(* returning-viewer branch is reached (existing record, points already     *)
(* earned, watch_duration increased, fully_watched false for this call),   *)
(* video_length > watch_duration holds, so that branch never awards 0.     *)
(***************************************************************************)
C28_GuardRedundant ==
    (/\ Watched
     /\ ret.view_writes = 1
     /\ ret.watch_duration >= 60
     /\ ret.existing # <<>>
     /\ ret.existing[1].points_earned > 0
     /\ ret.watch_duration > ret.existing[1].watch_duration
     /\ ~ret.record[1].fully_watched)
        => LET ds == ret.video[1].duration_seconds
               video_length == IF ds = <<>> THEN 600 ELSE ds[1]
           IN video_length > ret.watch_duration /\ ret.points # 0

C28_Witness ==
    /\ Watched
    /\ ret.view_writes = 1
    /\ ret.existing # <<>>
    /\ ret.existing[1].points_earned > 0
    /\ ret.existing[1].watch_duration = 60
    /\ ret.watch_duration = 90
    /\ ret.video[1].duration_seconds = <<120>>
    /\ ~ret.record[1].fully_watched
    /\ ret.points = 1

(***************************************************************************)
(* C30 -- pair isolation: a call for the pair (v, u) leaves unchanged      *)
(* every ViewRecord of any other pair, the balance of every user other     *)
(* than u and every video; the points it returns depend only on v's        *)
(* configuration and the stored record of (v, u).                          *)
(***************************************************************************)
C30_PairIsolation ==
    [][(ret' # ret /\ ret'.op = "watch")
          => LET v == ret'.video_id
                 u == ret'.viewer_id
                 own(r) == r.video_id = v /\ r.viewer_id = u
                 mine == {r \in views : own(r)}
             IN /\ {r \in views : ~own(r)} = {r \in views' : ~own(r)}
                /\ \A w \in UserIds \ {u} : users'[w] = users[w]
                /\ videos' = videos
                /\ ret'.status = "ok"
                      => \/ /\ mine = {}
                            /\ ret'.points
                                 = PointsEarned(videos[v][1], <<>>, ret'.watch_duration)
                         \/ \E r \in mine :
                              ret'.points
                                 = IF r.fully_watched THEN 0
                                   ELSE PointsEarned(videos[v][1], <<r>>,
                                                     ret'.watch_duration)]_vars

C30_Witness ==
    /\ Watched
    /\ ret.video_id = "v2"
    /\ ret.points > 0
    /\ ret.view_writes = 1
    /\ \E r \in views : r.video_id = "v1" /\ r.points_earned > 0 /\ ~r.fully_watched

(***************************************************************************)
(* C29 -- points are bounded by the video's length: over any sequential    *)
(* history of calls on one pair with a fixed video configuration           *)
(* (video_length >= 60, reward_rate >= 1), the stored points_earned never  *)
(* exceeds reward_rate + floor(video_length / 60) - 1, however many        *)
(* reports are made and however finely the increases are split.            *)
(***************************************************************************)
C29_PointsBounded ==
    \A r \in views :
        LET video == videos[r.video_id][1]
            video_length == IF video.duration_seconds = <<>> THEN 600
                            ELSE video.duration_seconds[1]
            reward_rate == IF video.points_per_minute = <<>> THEN 10
                           ELSE video.points_per_minute[1]
        IN (video_length >= 60 /\ reward_rate >= 1)
              => r.points_earned <= reward_rate + (video_length \div 60) - 1

(***************************************************************************)
(* C21 -- the concurrency gap is reachable: an interleaving of two         *)
(* concurrent calls on one pair, both reading the record before either     *)
(* writes, ends with the viewer's balance different from the points_earned *)
(* of the pair's record.  The gap is the ledger incremented more than the  *)
(* record reflects: the balance is never below the stored points_earned.   *)
(***************************************************************************)
C21_LedgerNotBehindRecord ==
    \A u \in UserIds : Balance(users, u) >= SumPointsEarned(ViewsOf(u))

C21_Witness ==
    \E h \in Handlers, g \in Handlers :
        /\ h # g
        /\ calls[h].pc = "done" /\ calls[g].pc = "done"
        /\ calls[h].video_id = "v1" /\ calls[g].video_id = "v1"
        /\ calls[h].viewer_id = "u1" /\ calls[g].viewer_id = "u1"
        /\ calls[h].existing = calls[g].existing
        /\ calls[h].wrote \in {"update", "upsert"}
        /\ calls[g].wrote \in {"update", "upsert"}
        /\ CallPoints(calls[h]) > 0 /\ CallPoints(calls[g]) > 0
        /\ Balance(users, "u1") > FindOneView(views, "v1", "u1")[1].points_earned

(***************************************************************************)
(* C22 -- created_at is write-once: the created_at of a pair's ViewRecord  *)
(* is fixed when the record is created and no later call changes it, under *)
(* any sequence or concurrent interleaving of calls.                       *)
(***************************************************************************)
C22_CreatedAtWriteOnce ==
    [][\A r \in views : \A q \in views' :
          q.id = r.id => q.created_at = r.created_at]_vars

(***************************************************************************)
(* C26 -- write ordering and partial failure: within a call the ledger     *)
(* increment happens before the ViewRecord write, so a call that fails     *)
(* between the two leaves the balance ahead of the record's points_earned  *)
(* by exactly the points of the call, and the record is never ahead of the *)
(* ledger.                                                                 *)
(***************************************************************************)
C26_IncrementBeforeWrite ==
    LET c == calls["h1"]
        stored == FindOneView(views, c.video_id, c.viewer_id)
    IN /\ c.pc = "inc_points" => (c.wrote = "none" /\ stored = c.existing)
       /\ (c.wrote \in {"update", "upsert"} /\ CallPoints(c) > 0)
             => Balance(users, c.viewer_id) = c.viewer[1].points + CallPoints(c)
       /\ (c.pc = "done" /\ c.wrote = "aborted" /\ CallPoints(c) > 0)
             => /\ stored = c.existing
                /\ Balance(users, c.viewer_id) = c.viewer[1].points + CallPoints(c)
       /\ \A u \in UserIds : SumPointsEarned(ViewsOf(u)) <= Balance(users, u)

C26_Witness ==
    /\ calls["h1"].pc = "done"
    /\ calls["h1"].wrote = "aborted"
    /\ calls["h1"].existing # <<>>
    /\ CallPoints(calls["h1"]) > 0
    /\ Balance(users, "u1")
         = FindOneView(views, "v1", "u1")[1].points_earned + CallPoints(calls["h1"])

====
